---- MODULE Spec2Model ----
(***************************************************************************)
(* Model of the JobMatch service gateway (src/gateway/app): the            *)
(* configuration store (config.py), the baseline registry (fallback.py),   *)
(* the metrics recorder and the dispatcher (router.py).                    *)
(*                                                                         *)
(* The gateway runs on one asyncio event loop: a coroutine runs without    *)
(* interruption until it awaits something that suspends.  The only such    *)
(* await of call_service is the HTTP request of _call_external, so one     *)
(* route call is two atomic steps: RouteStart (up to the suspension) and   *)
(* ExternalReturn (from the resumption to the return or raise).            *)
(***************************************************************************)
EXTENDS Integers, Sequences, FiniteSets, Bags, TLC

VARIABLES
    source,        \* the configuration file on disk: existence, mtime, content
    services,      \* ConfigManager.services: name -> ServiceConfig
    gateway,       \* ConfigManager.gateway: GatewaySettings
    last_loaded,   \* ConfigManager.last_loaded: None or set by a successful load
    last_mtime,    \* ConfigManager._last_mtime
    metrics,       \* ServiceRouter.metrics: name -> ServiceMetrics (lazily created)
    calls,         \* the route calls started so far: a bag of coroutine frames
    recorded,      \* every latency sample ever passed to _record_latency, per service
    health,        \* the last answer of get_health(), or NoHealth
    admin,         \* the last answer of POST /admin/reload-config, or NoReply
    handler_request,   \* the handler and request of a baseline called on its own
    handler_response,  \* what that baseline returned, None before the call
    db,            \* the webapp's database: the jobs and applications tables
    workers        \* the webapp's request threads, each in create_application or idle

vars == <<source, services, gateway, last_loaded, last_mtime,
          metrics, calls, recorded, health, admin, handler_request, handler_response,
          db, workers>>

(***************************************************************************)
(* Bounds of the model.                                                    *)
(***************************************************************************)
MaxCalls == 2        \* route calls started in one behaviour
MaxMtime == 1        \* largest modification time the source file takes
MaxRecorded == 102   \* latency samples recorded per service in SpecLatency
MaxJitter == 1       \* leading samples of SpecLatency whose value is free
MaxRequests == 20    \* largest total_requests drawn in SpecHealth
MaxRewrites == 2     \* largest modification time of the source in SpecConfig
MaxConfigCalls == 1  \* route calls started in one behaviour of SpecConfig
MaxRetries == 3      \* largest max_retries a configuration file sets in SpecRetry
MaxCount == 24       \* largest num_recommendations requested in SpecBaseline
MaxProfiles == 3     \* longest list of candidate profiles in SpecBaseline
MaxCandidates == 5   \* longest list of candidates segmented in SpecBaseline
MaxClusters == 4     \* largest num_clusters requested in SpecBaseline
MaxTokens == 4       \* most pieces a resume text is made of in SpecBaseline
MaxHorizon == 12     \* largest forecast_horizon requested in SpecBaseline
MaxWorkers == 2      \* request threads of the webapp, one request each, in SpecWebapp

(***************************************************************************)
(* Service names.                                                          *)
(***************************************************************************)
SixServices ==
    {"job_recommender", "salary_predictor", "candidate_ranker",
     "resume_parser", "demand_forecaster", "candidate_segmenter"}

\* A name with no baseline.  The default configuration does not have it (there
\* it is an unknown service), a configuration file may define it.
ExtraService == "extra_service"

Names == SixServices \cup {ExtraService}

(***************************************************************************)
(* Baseline registry (fallback.py).                                        *)
(***************************************************************************)
FALLBACK_HANDLERS == SixServices

NoHandler == "None"

\* faulty variant: the registry lacks the entry of resume_parser
get_fallback_MissingEntry(service_name) ==
    IF service_name \in FALLBACK_HANDLERS \ {"resume_parser"}
    THEN service_name
    ELSE NoHandler

get_fallback(service_name) ==
    IF service_name \in FALLBACK_HANDLERS THEN service_name ELSE NoHandler

\* Request payloads: the empty object, and an object with a field of a type
\* the baseline cannot use (num_recommendations: "x", job_title: 5, ...).
EmptyPayload == "{}"
IllTypedPayload == "ill_typed"
Payloads == {EmptyPayload, IllTypedPayload}

\* The exception a baseline raises on the ill-typed payload: request.get(...)
\* returns the wrongly typed value and the next operation on it fails.
HandlerError(handler) ==
    IF handler \in {"salary_predictor", "resume_parser"}
    THEN "AttributeError"
    ELSE "TypeError"

HandlerRaises(handler, request_data) == request_data = IllTypedPayload

(***************************************************************************)
(* Configuration store (config.py).                                        *)
(***************************************************************************)
ServiceConfig(endpoint, timeout, enabled) ==
    [endpoint |-> endpoint, timeout |-> timeout, enabled |-> enabled]

GatewaySettings(fallback_enabled) ==
    [fallback_enabled |-> fallback_enabled, max_retries |-> 1]

None == [none |-> TRUE]

DefaultServices ==
    [n \in SixServices |->
        CASE n = "job_recommender"     -> ServiceConfig("http://localhost:5001/recommend", 5, TRUE)
          [] n = "salary_predictor"    -> ServiceConfig("http://localhost:5002/predict", 5, TRUE)
          [] n = "candidate_ranker"    -> ServiceConfig("http://localhost:5003/rank", 5, TRUE)
          [] n = "resume_parser"       -> ServiceConfig("http://localhost:5004/parse", 10, TRUE)
          [] n = "demand_forecaster"   -> ServiceConfig("http://localhost:5005/forecast", 5, TRUE)
          [] n = "candidate_segmenter" -> ServiceConfig("http://localhost:5006/segment", 5, TRUE)]

\* The contents the configuration file takes.  A document either fails to
\* parse or validate, or yields a services map and gateway settings.
StudentServices ==
    [n \in {"job_recommender", "salary_predictor", "candidate_ranker", ExtraService} |->
        CASE n = "job_recommender"  -> ServiceConfig("http://student:8000/recommend", 5, TRUE)
          [] n = "salary_predictor" -> ServiceConfig("http://student:8000/predict", 5, FALSE)
          [] n = "candidate_ranker" -> ServiceConfig("", 5, TRUE)
          [] n = ExtraService       -> ServiceConfig("http://student:8000/extra", 5, TRUE)]

DocMalformed == [parses |-> FALSE]
DocStudent ==
    [parses |-> TRUE, services |-> StudentServices, gateway |-> GatewaySettings(TRUE)]
DocNoFallback ==
    [parses |-> TRUE, services |-> StudentServices, gateway |-> GatewaySettings(FALSE)]

Docs == {DocMalformed, DocStudent, DocNoFallback}

\* the student document with gateway: {fallback_enabled: ..., max_retries: ...}
DocRetries(fallback_enabled, max_retries) ==
    [parses |-> TRUE, services |-> StudentServices,
     gateway |-> [GatewaySettings(fallback_enabled) EXCEPT !.max_retries = max_retries]]

\* A document whose second service entry fails validation (no endpoint, or
\* enabled: "maybe"): ServiceConfig(**settings) raises after the first entry
\* has been put into self.services.
DocInvalidEntry ==
    [parses |-> FALSE,
     services |-> [n \in {"job_recommender"} |-> StudentServices[n]]]

\* The file: mtime is the time of its last change (kept while it is absent,
\* so that a file created again is newer than the one deleted).
NoSource == [exists |-> FALSE, mtime |-> 0, doc |-> DocMalformed]
SourceFile(mtime, doc) == [exists |-> TRUE, mtime |-> mtime, doc |-> doc]

\* The configuration state as one record, so that load is a function of it.
ConfigState(svcs, gw, ll, lm) ==
    [services |-> svcs, gateway |-> gw, last_loaded |-> ll, last_mtime |-> lm]

CurrentConfig == ConfigState(services, gateway, last_loaded, last_mtime)

\* faulty variant: the defaults do not replace the services map
load_defaults_KeepsServices(cfg) ==
    [cfg EXCEPT !.gateway = GatewaySettings(TRUE)]

load_defaults(cfg) ==
    [cfg EXCEPT !.services = DefaultServices, !.gateway = GatewaySettings(TRUE)]

\* A document that cannot be opened or is not YAML fails before anything is
\* assigned; one with an invalid entry fails after self.services = {} and
\* the entries before it were assigned.  The handler then loads the defaults.
load(cfg, src) ==
    IF ~src.exists THEN load_defaults(cfg)
    ELSE IF ~src.doc.parses
    THEN load_defaults(IF "services" \in DOMAIN src.doc
                       THEN [cfg EXCEPT !.services = src.doc.services]
                       ELSE cfg)
    ELSE ConfigState(src.doc.services, src.doc.gateway, "loaded", src.mtime)

\* the value check_reload returns: whether it called load()
check_reload_returns(cfg, src) ==
    /\ src.exists
    /\ src.mtime > cfg.last_mtime

check_reload(cfg, src) ==
    IF ~src.exists THEN cfg
    ELSE IF src.mtime > cfg.last_mtime THEN load(cfg, src)
    ELSE cfg

get_service(cfg, name) ==
    IF name \in DOMAIN cfg.services THEN cfg.services[name] ELSE None

(***************************************************************************)
(* Metrics recorder (router.py).                                           *)
(***************************************************************************)
MaxLatencies == 100

NewMetrics ==
    [total_requests |-> 0, external_success |-> 0, fallback_success |-> 0,
     failures |-> 0, latencies |-> <<>>, last_error |-> None]

\* latencies[-100:]
LastSamples(seq, n) ==
    IF Len(seq) <= n THEN seq ELSE SubSeq(seq, Len(seq) - n + 1, Len(seq))

\* faulty variant: the request that creates the entry is not counted
record_request_FirstUncounted(m, service_name) ==
    IF service_name \in DOMAIN m
    THEN [m EXCEPT ![service_name].total_requests = @ + 1]
    ELSE [n \in DOMAIN m \cup {service_name} |->
              IF n = service_name THEN NewMetrics ELSE m[n]]

record_request(m, service_name) ==
    LET m1 == IF service_name \in DOMAIN m
              THEN m
              ELSE [n \in DOMAIN m \cup {service_name} |->
                        IF n = service_name THEN NewMetrics ELSE m[n]]
    IN [m1 EXCEPT ![service_name].total_requests = @ + 1]

\* faulty variant: a success clears last_error
record_success_ClearsLastError(m, service_name, external) ==
    IF external
    THEN [m EXCEPT ![service_name].external_success = @ + 1,
                   ![service_name].last_error = None]
    ELSE [m EXCEPT ![service_name].fallback_success = @ + 1,
                   ![service_name].last_error = None]

\* faulty variant: the external flag is ignored
record_success_AlwaysExternal(m, service_name, external) ==
    [m EXCEPT ![service_name].external_success = @ + 1]

record_success(m, service_name, external) ==
    IF external
    THEN [m EXCEPT ![service_name].external_success = @ + 1]
    ELSE [m EXCEPT ![service_name].fallback_success = @ + 1]

\* faulty variant: the failure is counted but last_error is not set
record_failure_NoLastError(m, service_name, error) ==
    [m EXCEPT ![service_name].failures = @ + 1]

\* faulty variant: the counter is written from a value read before another
\* call's update (a lost update): the second failure leaves it at 1
record_failure_LostUpdate(m, service_name, error) ==
    [m EXCEPT ![service_name].failures = 1,
              ![service_name].last_error = [message |-> error]]

record_failure(m, service_name, error) ==
    [m EXCEPT ![service_name].failures = @ + 1,
              ![service_name].last_error = [message |-> error]]

\* faulty variant: latencies[:100], the oldest samples are kept
record_latency_KeepsOldest(m, service_name, latency_ms) ==
    LET latencies == Append(m[service_name].latencies, latency_ms)
    IN [m EXCEPT ![service_name].latencies =
            IF Len(latencies) > MaxLatencies
            THEN SubSeq(latencies, 1, MaxLatencies)
            ELSE latencies]

record_latency(m, service_name, latency_ms) ==
    LET latencies == Append(m[service_name].latencies, latency_ms)
    IN [m EXCEPT ![service_name].latencies =
            IF Len(latencies) > MaxLatencies
            THEN LastSamples(latencies, MaxLatencies)
            ELSE latencies]

\* the history of samples handed to _record_latency (not program state)
note_latency(r, service_name, latency_ms) ==
    [r EXCEPT ![service_name] = Append(@, latency_ms)]

(***************************************************************************)
(* get_health (router.py).  failures / total is a float division; for      *)
(* counters below 2^53 the quotient compares with 0.5 and with 0.1 as the  *)
(* exact ratio does, so the comparisons are cross-multiplied.  The rate    *)
(* is kept as a fraction in lowest terms, 0 as 0/1.                        *)
(***************************************************************************)
RECURSIVE Gcd(_, _)
Gcd(a, b) == IF b = 0 THEN a ELSE Gcd(b, a % b)

Fraction(num, den) ==
    LET g == Gcd(num, den) IN <<num \div g, den \div g>>

Zero == <<0, 1>>

MetricsGet(m, name, field, default) ==
    IF name \in DOMAIN m THEN m[name][field] ELSE default

\* faulty variant: >= 0.5 instead of > 0.5
HealthStatus_DegradedAtHalf(total, failures) ==
    IF total = 0 THEN "unknown"
    ELSE IF 2 * failures >= total THEN "degraded"
    ELSE IF 10 * failures > total THEN "warning"
    ELSE "healthy"

HealthStatus(total, failures) ==
    IF total = 0 THEN "unknown"
    ELSE IF 2 * failures > total THEN "degraded"
    ELSE IF 10 * failures > total THEN "warning"
    ELSE "healthy"

\* faulty variant: only the services that have metrics are reported
get_health_OnlyRequested(cfg, m) ==
    [name \in DOMAIN cfg.services \cap DOMAIN m |->
        LET total == MetricsGet(m, name, "total_requests", 0)
            failures == MetricsGet(m, name, "failures", 0)
        IN [status |-> HealthStatus(total, failures),
            endpoint |-> cfg.services[name].endpoint,
            enabled |-> cfg.services[name].enabled,
            total_requests |-> total,
            failure_rate |-> IF total > 0 THEN Fraction(failures, total) ELSE Zero,
            last_error |-> MetricsGet(m, name, "last_error", None)]]

get_health(cfg, m) ==
    [name \in DOMAIN cfg.services |->
        LET total == MetricsGet(m, name, "total_requests", 0)
            failures == MetricsGet(m, name, "failures", 0)
        IN [status |-> HealthStatus(total, failures),
            endpoint |-> cfg.services[name].endpoint,
            enabled |-> cfg.services[name].enabled,
            total_requests |-> total,
            failure_rate |-> IF total > 0 THEN Fraction(failures, total) ELSE Zero,
            last_error |-> MetricsGet(m, name, "last_error", None)]]

NoHealth == [none |-> TRUE]

NoReply == [none |-> TRUE]

(***************************************************************************)
(* Dispatcher (router.py).                                                 *)
(***************************************************************************)
\* measured latencies, in milliseconds
LatencyMs == {5}

\* What the HTTP request of _call_external ends in.  "ok" is a 2xx answer
\* whose JSON body is an object, "ok_not_object" a 2xx answer whose JSON body
\* is a list, a string, a number or null.  An empty endpoint is not a URL
\* httpx can request: the request fails before anything is sent.
ExternalOutcomes(endpoint) ==
    IF endpoint = ""
    THEN {"unsupported_protocol"}
    ELSE {"ok", "ok_not_object", "connect_error", "http_status", "timeout"}

\* the outcomes in which the endpoint did not answer 2xx
FailedOutcomes == {"unsupported_protocol", "connect_error", "http_status", "timeout"}

\* the exception _call_external raises (str(e) is what last_error keeps)
ExcOf(outcome) ==
    CASE outcome = "unsupported_protocol" -> "UnsupportedProtocol"
      [] outcome = "connect_error"        -> "ConnectError"
      [] outcome = "http_status"          -> "HTTPStatusError"
      [] outcome = "timeout"              -> "TimeoutException"
      [] outcome = "ok_not_object"        -> "TypeError"

NoHandlerError == "ValueError: No fallback handler for service"

Error(exc) == [kind |-> "error", exc |-> exc]

ExternalEnvelope(endpoint, latency_ms) ==
    [kind |-> "envelope", body |-> "external_json", source |-> "external",
     endpoint |-> endpoint, latency_ms |-> latency_ms]

\* faulty variant: the fallback metadata is a copy of the external one
FallbackEnvelope_WithEndpoint(handler, latency_ms) ==
    [kind |-> "envelope", body |-> handler, source |-> "fallback",
     endpoint |-> "", latency_ms |-> latency_ms]

FallbackEnvelope(handler, latency_ms) ==
    [kind |-> "envelope", body |-> handler, source |-> "fallback",
     latency_ms |-> latency_ms]

\* _call_fallback on metrics m and sample history r: the metrics, the history
\* and the result (an envelope, or the exception raised) after it.
call_fallback(m, r, service_name, request_data, latency_ms) ==
    LET fallback_handler == get_fallback(service_name) IN
    IF fallback_handler = NoHandler
    THEN [metrics |-> m, recorded |-> r, result |-> Error(NoHandlerError)]
    ELSE IF HandlerRaises(fallback_handler, request_data)
    THEN [metrics |-> m, recorded |-> r,
          result |-> Error(HandlerError(fallback_handler))]
    ELSE [metrics |-> record_success(
                          record_latency(m, service_name, latency_ms),
                          service_name, FALSE),
          recorded |-> note_latency(r, service_name, latency_ms),
          result |-> FallbackEnvelope(fallback_handler, latency_ms)]

\* The frame of one call_service coroutine.  config is the ServiceConfig it
\* looked up, outcome what its HTTP request ended in, fallback_enabled the
\* setting it read after a failure (None while not read), attempts the
\* number of HTTP requests it has issued, waited the seconds its HTTP
\* request has gone without network activity (counted in SpecTimeout only).
Read(value) == [value |-> value]

Frame(service_name, request_data, pc, config, outcome, fb, result, attempts) ==
    [service |-> service_name, payload |-> request_data, pc |-> pc,
     config |-> config, outcome |-> outcome, fallback_enabled |-> fb,
     result |-> result, attempts |-> attempts, waited |-> 0]

TryExternal(service_config) ==
    /\ service_config # None
    /\ service_config.enabled

\* call_service up to the await of the HTTP request, or to its end when no
\* external attempt is made
RouteStart(service_name, request_data, latency_ms) ==
    /\ LET cfg == check_reload(CurrentConfig, source)
           service_config == get_service(cfg, service_name)
           m1 == record_request(metrics, service_name)
       IN /\ services' = cfg.services
          /\ gateway' = cfg.gateway
          /\ last_loaded' = cfg.last_loaded
          /\ last_mtime' = cfg.last_mtime
          /\ IF TryExternal(service_config)
             THEN /\ metrics' = m1
                  /\ recorded' = recorded
                  /\ calls' = calls (+) SetToBag({
                        Frame(service_name, request_data, "external",
                              service_config, "pending", None, None, 1)})
             ELSE LET fb == call_fallback(m1, recorded, service_name,
                                          request_data, latency_ms)
                  IN /\ metrics' = fb.metrics
                     /\ recorded' = fb.recorded
                     /\ calls' = calls (+) SetToBag({
                           Frame(service_name, request_data, "done",
                                 service_config, "none", None, fb.result, 0)})
    /\ UNCHANGED <<source, health, admin, handler_request, handler_response,
                   db, workers>>

\* What call_service does with the outcome of its HTTP request: the success
\* path of _call_external, or the except branch.
Complete(c, outcome, latency_ms, fallback_ms) ==
    LET service_name == c.service
        config == c.config
        finish(fb, result) ==
            (calls (-) SetToBag({c})) (+) SetToBag({
                [c EXCEPT !.pc = "done", !.outcome = outcome,
                          !.fallback_enabled = fb, !.result = result]})
    IN IF outcome = "ok"
       THEN /\ metrics' = record_success(
                              record_latency(metrics, service_name, latency_ms),
                              service_name, TRUE)
            /\ recorded' = note_latency(recorded, service_name, latency_ms)
            /\ calls' = finish(None, ExternalEnvelope(config.endpoint, latency_ms))
       ELSE LET \* a 2xx answer that is not an object: the latency is
                \* recorded before tagging the result raises
                m0 == IF outcome = "ok_not_object"
                      THEN record_latency(metrics, service_name, latency_ms)
                      ELSE metrics
                r0 == IF outcome = "ok_not_object"
                      THEN note_latency(recorded, service_name, latency_ms)
                      ELSE recorded
                m1 == record_failure(m0, service_name, ExcOf(outcome))
            IN IF gateway.fallback_enabled
               THEN LET fb == call_fallback(m1, r0, service_name,
                                            c.payload, fallback_ms)
                    IN /\ metrics' = fb.metrics
                       /\ recorded' = fb.recorded
                       /\ calls' = finish(Read(TRUE), fb.result)
               ELSE /\ metrics' = m1
                    /\ recorded' = r0
                    /\ calls' = finish(Read(FALSE), Error(ExcOf(outcome)))

\* faulty variant: a failed request is issued again, up to max_retries times
ExternalReturn_Retries(c, outcome, latency_ms, fallback_ms) ==
    /\ c \in BagToSet(calls)
    /\ c.pc = "external"
    /\ outcome \in ExternalOutcomes(c.config.endpoint)
    /\ IF outcome \in FailedOutcomes /\ c.attempts <= gateway.max_retries
       THEN /\ calls' = (calls (-) SetToBag({c})) (+) SetToBag({
                             [c EXCEPT !.attempts = @ + 1]})
            /\ UNCHANGED <<metrics, recorded,
                   db, workers>>
       ELSE Complete(c, outcome, latency_ms, fallback_ms)
    /\ UNCHANGED <<source, services, gateway, last_loaded, last_mtime,
                   health, admin, handler_request, handler_response,
                   db, workers>>

\* call_service from the end of the HTTP request to its return or raise.
\* latency_ms is the round trip, fallback_ms the time the baseline takes.
ExternalReturn(c, outcome, latency_ms, fallback_ms) ==
    /\ c \in BagToSet(calls)
    /\ c.pc = "external"
    /\ outcome \in ExternalOutcomes(c.config.endpoint)
    /\ Complete(c, outcome, latency_ms, fallback_ms)
    /\ UNCHANGED <<source, services, gateway, last_loaded, last_mtime,
                   health, admin, handler_request, handler_response,
                   db, workers>>

\* faulty variant: loading the configuration starts the metrics afresh
ReloadConfig_ResetsMetrics ==
    /\ LET cfg == load(CurrentConfig, source)
       IN /\ services' = cfg.services
          /\ gateway' = cfg.gateway
          /\ last_loaded' = cfg.last_loaded
          /\ last_mtime' = cfg.last_mtime
    /\ metrics' = <<>>
    /\ UNCHANGED <<source, calls, recorded, health, admin, handler_request, handler_response,
                   db, workers>>

\* startup_event: config.load()
ReloadConfig ==
    /\ LET cfg == load(CurrentConfig, source)
       IN /\ services' = cfg.services
          /\ gateway' = cfg.gateway
          /\ last_loaded' = cfg.last_loaded
          /\ last_mtime' = cfg.last_mtime
    /\ UNCHANGED <<source, metrics, calls, recorded, health, admin, handler_request, handler_response,
                   db, workers>>

\* the environment writes the configuration file
EditSource(doc) ==
    /\ source.mtime < MaxMtime
    /\ source' = SourceFile(source.mtime + 1, doc)
    /\ UNCHANGED <<services, gateway, last_loaded, last_mtime,
                   metrics, calls, recorded, health, admin, handler_request, handler_response,
                   db, workers>>

\* The webapp's tables as they are seeded, and a request thread that has
\* nothing to do.  Candidate 1 exists; job 1 is open, job 2 is paused.
Candidates == {1}
SeededDb == [jobs |-> [j \in {1, 2} |-> IF j = 1 THEN "open" ELSE "paused"],
             applications |-> <<>>]
IdleWorker == [pc |-> "idle", candidate_id |-> 0, job_id |-> 0, status_code |-> 0]

\* nothing has been asked of the admin endpoint, of a baseline on its own or
\* of the webapp
Idle ==
    /\ admin = NoReply
    /\ handler_request = None
    /\ handler_response = None
    /\ db = SeededDb
    /\ workers = [w \in 1..MaxWorkers |-> IdleWorker]

ConfigInit ==
    /\ services = <<>>
    /\ gateway = GatewaySettings(TRUE)
    /\ last_loaded = "None"
    /\ last_mtime = 0

Init ==
    /\ source \in {NoSource} \cup {SourceFile(1, doc) : doc \in Docs}
    /\ ConfigInit
    /\ metrics = <<>>
    /\ calls = EmptyBag
    /\ recorded = [n \in Names |-> <<>>]
    /\ health = NoHealth
    /\ Idle

\* a caller starts a route call
Route(service_name, request_data, latency_ms) ==
    /\ BagCardinality(calls) < MaxCalls
    /\ RouteStart(service_name, request_data, latency_ms)

\* the HTTP request of some suspended call ends
Resume ==
    \E c \in BagToSet(calls) :
        \E outcome \in FailedOutcomes \cup {"ok", "ok_not_object"},
           latency_ms \in LatencyMs, fallback_ms \in LatencyMs :
            ExternalReturn(c, outcome, latency_ms, fallback_ms)

Next ==
    \/ \E service_name \in Names, request_data \in Payloads, latency_ms \in LatencyMs :
           Route(service_name, request_data, latency_ms)
    \/ Resume
    \/ ReloadConfig
    \/ \E doc \in Docs : EditSource(doc)

Spec == Init /\ [][Next]_vars

(***************************************************************************)
(* The latency window over many requests.  The configuration file is the   *)
(* student document and has been loaded: salary_predictor is disabled and  *)
(* resume_parser is not configured, so every call to them is served by the *)
(* baseline and records one sample.  The k-th call to a service measures   *)
(* k ms (the first MaxJitter calls k or k + 1000), so that the samples *)
(* of a window tell which calls they come from.                            *)
(***************************************************************************)
LatencyNames == {"salary_predictor", "resume_parser"}

LatencySamples(service_name) ==
    LET k == Len(recorded[service_name]) + 1
    IN IF k <= MaxJitter THEN {k, k + 1000} ELSE {k}

LatencyInit ==
    /\ source = SourceFile(1, DocStudent)
    /\ services = load(ConfigState(<<>>, GatewaySettings(TRUE), "None", 0), source).services
    /\ gateway = load(ConfigState(<<>>, GatewaySettings(TRUE), "None", 0), source).gateway
    /\ last_loaded = "loaded"
    /\ last_mtime = 1
    /\ metrics = <<>>
    /\ calls = EmptyBag
    /\ recorded = [n \in Names |-> <<>>]
    /\ health = NoHealth
    /\ Idle

RouteSample(service_name) ==
    /\ Len(recorded[service_name]) < MaxRecorded
    /\ \E latency_ms \in LatencySamples(service_name) :
           RouteStart(service_name, EmptyPayload, latency_ms)

LatencyNext == \E service_name \in LatencyNames : RouteSample(service_name)

SpecLatency == LatencyInit /\ [][LatencyNext]_vars

(***************************************************************************)
(* get_health over the counters a service can have.  The configuration is  *)
(* the no-fallback document; job_recommender has served total requests, of *)
(* which failures ended in a connection error (propagated, as fallback is  *)
(* disabled) and the others in an external answer.                         *)
(***************************************************************************)
HealthService == "job_recommender"

HealthFrames(succeeded, failed) ==
    LET config == StudentServices[HealthService]
        okFrame == Frame(HealthService, EmptyPayload, "done", config, "ok", None,
                         ExternalEnvelope(config.endpoint, 5), 1)
        errFrame == Frame(HealthService, EmptyPayload, "done", config,
                          "connect_error", Read(FALSE),
                          Error(ExcOf("connect_error")), 1)
    IN [f \in {okFrame : x \in 1..succeeded} \cup {errFrame : x \in 1..failed} |->
            IF f = okFrame THEN succeeded ELSE failed]

HealthInit ==
    /\ source = SourceFile(1, DocNoFallback)
    /\ services = StudentServices
    /\ gateway = GatewaySettings(FALSE)
    /\ last_loaded = "loaded"
    /\ last_mtime = 1
    /\ \E total \in 0..MaxRequests : \E failures \in 0..total :
          /\ metrics =
                IF total = 0 THEN <<>>
                ELSE [n \in {HealthService} |->
                        [total_requests |-> total,
                         external_success |-> total - failures,
                         fallback_success |-> 0,
                         failures |-> failures,
                         latencies |-> [i \in 1..(total - failures) |-> 5],
                         last_error |-> IF failures = 0 THEN None
                                        ELSE [message |-> ExcOf("connect_error")]]]
          /\ calls = HealthFrames(total - failures, failures)
          /\ recorded = [n \in Names |->
                IF n = HealthService THEN [i \in 1..(total - failures) |-> 5] ELSE <<>>]
    /\ health = NoHealth
    /\ Idle

\* GET /health
GetHealth ==
    /\ health' = get_health(CurrentConfig, metrics)
    /\ UNCHANGED <<source, services, gateway, last_loaded, last_mtime,
                   metrics, calls, recorded, admin, handler_request, handler_response,
                   db, workers>>

HealthNext == GetHealth

SpecHealth == HealthInit /\ [][HealthNext]_vars

(***************************************************************************)
(* The configuration store under rewrites of its source.  The file is      *)
(* written, rewritten and deleted while the gateway starts up, serves      *)
(* requests, reports health and is told to reload.                         *)
(***************************************************************************)
\* the contents the file takes here: unreadable or not YAML, valid, invalid
ConfigDocs == {DocMalformed, DocNoFallback, DocInvalidEntry}

\* the services requested: one that every configuration has, and one that
\* only the default configuration has
ConfigRouted == {"job_recommender", "resume_parser"}

\* the answer of reload_config after config.load(): last_loaded.isoformat()
\* raises AttributeError while last_loaded is None
AdminReply(cfg) ==
    IF cfg.last_loaded = "None"
    THEN Error("AttributeError")
    ELSE [kind |-> "reply", status |-> "reloaded", last_loaded |-> cfg.last_loaded]

\* POST /admin/reload-config
ForceReload ==
    /\ LET cfg == load(CurrentConfig, source)
       IN /\ services' = cfg.services
          /\ gateway' = cfg.gateway
          /\ last_loaded' = cfg.last_loaded
          /\ last_mtime' = cfg.last_mtime
          /\ admin' = AdminReply(cfg)
    /\ UNCHANGED <<source, metrics, calls, recorded, health, handler_request, handler_response,
                   db, workers>>

\* the environment rewrites the configuration file
RewriteSource(doc) ==
    /\ source.mtime < MaxRewrites
    /\ source' = SourceFile(source.mtime + 1, doc)
    /\ UNCHANGED <<services, gateway, last_loaded, last_mtime,
                   metrics, calls, recorded, health, admin, handler_request, handler_response,
                   db, workers>>

\* the environment deletes the configuration file
DeleteSource ==
    /\ source.exists
    /\ source' = [source EXCEPT !.exists = FALSE]
    /\ UNCHANGED <<services, gateway, last_loaded, last_mtime,
                   metrics, calls, recorded, health, admin, handler_request, handler_response,
                   db, workers>>

RouteConfigured(service_name, latency_ms) ==
    /\ BagCardinality(calls) < MaxConfigCalls
    /\ RouteStart(service_name, EmptyPayload, latency_ms)

StoreInit ==
    /\ source \in {NoSource} \cup {SourceFile(1, doc) : doc \in ConfigDocs}
    /\ ConfigInit
    /\ metrics = <<>>
    /\ calls = EmptyBag
    /\ recorded = [n \in Names |-> <<>>]
    /\ health = NoHealth
    /\ Idle

ConfigNext ==
    \/ ReloadConfig
    \/ ForceReload
    \/ \E doc \in ConfigDocs : RewriteSource(doc)
    \/ DeleteSource
    \/ \E service_name \in ConfigRouted, latency_ms \in LatencyMs :
           RouteConfigured(service_name, latency_ms)
    \/ Resume
    \/ GetHealth

SpecConfig == StoreInit /\ [][ConfigNext]_vars

(***************************************************************************)
(* Routing under every max_retries.  The configuration file is the student *)
(* document with some fallback_enabled and some max_retries; the first     *)
(* call loads it.  job_recommender has an endpoint, candidate_ranker an    *)
(* empty one, salary_predictor is disabled.                                *)
(***************************************************************************)
RetryRouted == {"job_recommender", "candidate_ranker", "salary_predictor"}

RetryInit ==
    /\ \E fallback_enabled \in BOOLEAN, max_retries \in 0..MaxRetries :
          source = SourceFile(1, DocRetries(fallback_enabled, max_retries))
    /\ ConfigInit
    /\ metrics = <<>>
    /\ calls = EmptyBag
    /\ recorded = [n \in Names |-> <<>>]
    /\ health = NoHealth
    /\ Idle

RetryNext ==
    \/ \E service_name \in RetryRouted, latency_ms \in LatencyMs :
           Route(service_name, EmptyPayload, latency_ms)
    \/ Resume

SpecRetry == RetryInit /\ [][RetryNext]_vars

(***************************************************************************)
(* The timeout of the HTTP request.  client.post(..., timeout=t) gives      *)
(* httpx the limit t for each operation of the exchange (connecting,       *)
(* writing, reading a chunk of the response): the request raises a         *)
(* TimeoutException after t seconds without network activity.  Time is     *)
(* counted in seconds; the endpoint decides when it sends and when it      *)
(* completes its answer.                                                   *)
(***************************************************************************)
TimeoutRouted == {"job_recommender", "salary_predictor"}

Suspended == {c \in BagToSet(calls) : c.pc = "external"}

TimeoutInit ==
    /\ source \in {SourceFile(1, DocStudent), SourceFile(1, DocNoFallback)}
    /\ ConfigInit
    /\ metrics = <<>>
    /\ calls = EmptyBag
    /\ recorded = [n \in Names |-> <<>>]
    /\ health = NoHealth
    /\ Idle

\* a second passes for every suspended request; none is past its limit
Tick ==
    /\ Suspended # {}
    /\ \A c \in Suspended : c.waited < c.config.timeout
    /\ calls' = BagOfAll(LAMBDA c : IF c.pc = "external"
                                     THEN [c EXCEPT !.waited = @ + 1]
                                     ELSE c, calls)
    /\ UNCHANGED <<source, services, gateway, last_loaded, last_mtime, metrics,
                   recorded, health, admin, handler_request, handler_response,
                   db, workers>>

\* the endpoint accepts the connection or sends a part of its answer: the
\* operation's limit starts again
Progress ==
    \E c \in Suspended :
        /\ c.waited > 0
        /\ c.waited < c.config.timeout
        /\ calls' = (calls (-) SetToBag({c})) (+) SetToBag({[c EXCEPT !.waited = 0]})
        /\ UNCHANGED <<source, services, gateway, last_loaded, last_mtime, metrics,
                       recorded, health, admin, handler_request, handler_response,
                   db, workers>>

\* the limit of an operation is reached: client.post raises TimeoutException
Expire ==
    \E c \in Suspended :
        /\ c.waited = c.config.timeout
        /\ \E latency_ms \in LatencyMs, fallback_ms \in LatencyMs :
               ExternalReturn(c, "timeout", latency_ms, fallback_ms)

\* the exchange ends before a limit is reached: an answer or an error
Answer ==
    \E c \in Suspended :
        /\ c.waited < c.config.timeout
        /\ \E outcome \in (FailedOutcomes \cup {"ok", "ok_not_object"}) \ {"timeout"},
              latency_ms \in LatencyMs, fallback_ms \in LatencyMs :
               ExternalReturn(c, outcome, latency_ms, fallback_ms)

RouteTimed ==
    \E service_name \in TimeoutRouted, latency_ms \in LatencyMs :
        Route(service_name, EmptyPayload, latency_ms)

TimeoutNext == RouteTimed \/ Tick \/ Progress \/ Expire \/ Answer

\* time passes, and the event loop runs the timeout when it is due; nothing
\* obliges the endpoint to answer or to stop sending
SpecTimeout ==
    TimeoutInit /\ [][TimeoutNext]_vars /\ WF_vars(Tick) /\ WF_vars(Expire)

(***************************************************************************)
(* Double-precision arithmetic of the baselines (fallback.py).  n * x for  *)
(* an int n < 2^18 and a double x = sig * 2^-e is the exact product        *)
(* rounded to 53 significant bits, ties to even; int() drops the           *)
(* fraction.  The significand is held in 12-bit limbs and the product in   *)
(* bits, least significant first.                                          *)
(***************************************************************************)
\* 0.7 = 0x16666666666666 * 2^-53 and 1.3 = 0x14CCCCCCCCCCCD * 2^-52
Double07 == [sig |-> <<1638, 1638, 1638, 1638, 22>>, e |-> 53]
Double13 == [sig |-> <<3277, 3276, 3276, 3276, 20>>, e |-> 52]
\* 0.8 = 0x1999999999999A * 2^-53 and 1.2 = 0x13333333333333 * 2^-52
Double08 == [sig |-> <<2458, 2457, 2457, 2457, 25>>, e |-> 53]
Double12 == [sig |-> <<819, 819, 819, 819, 19>>, e |-> 52]

RECURSIVE Pow2(_)
Pow2(k) == IF k = 0 THEN 1 ELSE 2 * Pow2(k - 1)

RECURSIVE BitLength(_)
BitLength(v) == IF v = 0 THEN 0 ELSE 1 + BitLength(v \div 2)

\* the limbs of n * limbs + carry
RECURSIVE MulLimbs(_, _, _)
MulLimbs(n, limbs, carry) ==
    IF limbs = <<>>
    THEN IF carry = 0 THEN <<>>
         ELSE <<carry % 4096>> \o MulLimbs(n, limbs, carry \div 4096)
    ELSE LET t == n * Head(limbs) + carry
         IN <<t % 4096>> \o MulLimbs(n, Tail(limbs), t \div 4096)

\* the bits of a number given by its limbs (the top limb is not 0)
LimbsToBits(limbs) ==
    LET length == 12 * (Len(limbs) - 1) + BitLength(limbs[Len(limbs)])
    IN [i \in 1..length |->
            (limbs[((i - 1) \div 12) + 1] \div Pow2((i - 1) % 12)) % 2]

Increment(bits) ==
    IF \A i \in 1..Len(bits) : bits[i] = 1
    THEN [i \in 1..(Len(bits) + 1) |-> IF i = Len(bits) + 1 THEN 1 ELSE 0]
    ELSE LET j == CHOOSE j \in 1..Len(bits) :
                      bits[j] = 0 /\ \A k \in 1..(j - 1) : bits[k] = 1
         IN [i \in 1..Len(bits) |->
                IF i < j THEN 0 ELSE IF i = j THEN 1 ELSE bits[i]]

RECURSIVE BitsValue(_, _)
BitsValue(bits, from) ==
    IF from > Len(bits) THEN 0 ELSE bits[from] + 2 * BitsValue(bits, from + 1)

\* bits rounded to 53 significant bits: the bits kept and the number q of
\* bits dropped (the value is kept * 2^q)
RoundToDouble(bits) ==
    LET q == Len(bits) - 53 IN
    IF q <= 0 THEN [kept |-> bits, q |-> 0]
    ELSE LET kept == SubSeq(bits, q + 1, Len(bits))
             up == /\ bits[q] = 1
                   /\ \/ \E i \in 1..(q - 1) : bits[i] = 1
                      \/ kept[1] = 1
         IN [kept |-> IF up THEN Increment(kept) ELSE kept, q |-> q]

\* n * x as a double: its integer part and the bits of its fraction, least
\* significant first
FloatOfProduct(n, x) ==
    LET r == RoundToDouble(LimbsToBits(MulLimbs(n, x.sig, 0)))
        drop == x.e - r.q
    IN [int |-> BitsValue(r.kept, drop + 1), frac |-> SubSeq(r.kept, 1, drop)]

\* int(n * x)
IntOfProduct(n, x) ==
    IF n = 0 THEN 0
    ELSE LET r == RoundToDouble(LimbsToBits(MulLimbs(n, x.sig, 0)))
             drop == x.e - r.q
         IN BitsValue(r.kept, drop + 1)

(***************************************************************************)
(* The baselines (fallback.py), called on their own.  A request is a       *)
(* Python dict: a function from its keys to their values.  A string that   *)
(* the code transforms is a sequence of characters.                        *)
(***************************************************************************)
Get(dict, key, default) == IF key \in DOMAIN dict THEN dict[key] ELSE default

Uppercase ==
    <<"A", "B", "C", "D", "E", "F", "G", "H", "I", "J", "K", "L", "M",
      "N", "O", "P", "Q", "R", "S", "T", "U", "V", "W", "X", "Y", "Z">>
Lowercase ==
    <<"a", "b", "c", "d", "e", "f", "g", "h", "i", "j", "k", "l", "m",
      "n", "o", "p", "q", "r", "s", "t", "u", "v", "w", "x", "y", "z">>

\* str.lower() on ASCII text
lower(str) ==
    [i \in 1..Len(str) |->
        IF \E k \in 1..26 : Uppercase[k] = str[i]
        THEN Lowercase[CHOOSE k \in 1..26 : Uppercase[k] = str[i]]
        ELSE str[i]]

\* faulty variant: range(num_recommendations), the ids start at 0
job_recommender_FromZero(request) ==
    LET num_recommendations == Get(request, "num_recommendations", 10)
    IN [job_ids |-> [k \in 1..num_recommendations |-> k - 1],
        scores |-> [k \in 1..num_recommendations |->
                        LET i == k - 1 IN Fraction(1, i + 1)],
        explanations |-> [k \in 1..num_recommendations |-> "Based on recency"],
        baseline |-> TRUE,
        method |-> "most_recent"]

\* scores are the doubles 1.0 / (i + 1), kept as the fractions they round;
\* for i + 1 < 2^26 distinct fractions 1/(i + 1) round to distinct doubles
\* in the same order
job_recommender(request) ==
    LET num_recommendations == Get(request, "num_recommendations", 10)
    IN [job_ids |-> [k \in 1..num_recommendations |-> k],
        scores |-> [k \in 1..num_recommendations |->
                        LET i == k - 1 IN Fraction(1, i + 1)],
        explanations |-> [k \in 1..num_recommendations |-> "Based on recency"],
        baseline |-> TRUE,
        method |-> "most_recent"]

title_averages ==
    {<<<<"s", "o", "f", "t", "w", "a", "r", "e", " ", "e", "n", "g", "i", "n", "e", "e", "r">>,
       130000>>,
     <<<<"s", "e", "n", "i", "o", "r", " ", "s", "o", "f", "t", "w", "a", "r", "e", " ", "e", "n", "g", "i", "n", "e", "e", "r">>,
       165000>>,
     <<<<"d", "a", "t", "a", " ", "s", "c", "i", "e", "n", "t", "i", "s", "t">>,
       140000>>,
     <<<<"m", "a", "c", "h", "i", "n", "e", " ", "l", "e", "a", "r", "n", "i", "n", "g", " ", "e", "n", "g", "i", "n", "e", "e", "r">>,
       155000>>,
     <<<<"p", "r", "o", "d", "u", "c", "t", " ", "m", "a", "n", "a", "g", "e", "r">>,
       145000>>,
     <<<<"f", "r", "o", "n", "t", "e", "n", "d", " ", "d", "e", "v", "e", "l", "o", "p", "e", "r">>,
       110000>>,
     <<<<"b", "a", "c", "k", "e", "n", "d", " ", "d", "e", "v", "e", "l", "o", "p", "e", "r">>,
       125000>>,
     <<<<"d", "e", "v", "o", "p", "s", " ", "e", "n", "g", "i", "n", "e", "e", "r">>,
       135000>>,
     <<<<"d", "e", "f", "a", "u", "l", "t">>,
       100000>>}

TableGet(table, key, default) ==
    IF \E row \in table : row[1] = key
    THEN (CHOOSE row \in table : row[1] = key)[2]
    ELSE default

salary_predictor(request) ==
    LET job_title == lower(Get(request, "job_title", <<>>))
        base_salary ==
            TableGet(title_averages, job_title,
                     TableGet(title_averages, <<"d", "e", "f", "a", "u", "l", "t">>, 0))
        low == IntOfProduct(base_salary, Double07)
        high == IntOfProduct(base_salary, Double13)
    IN [predicted_salary |-> base_salary,
        confidence_interval |-> <<low, high>>,
        comparable_jobs |-> <<>>,
        baseline |-> TRUE,
        method |-> "industry_average"]

\* A candidate profile is a record: dict tells a JSON object from any other
\* JSON value (a number, a string), id is present when the object has the key.
isinstance_dict(c) == c.dict

\* c.get("id", i); a value that is not a dict has no get: AttributeError
ProfileRaises(c) == ~isinstance_dict(c)

candidate_ranker(request) ==
    LET candidates == Get(request, "candidate_profiles", <<>>)
        n == Len(candidates)
    IN IF candidates # <<>> /\ isinstance_dict(candidates[1])
       THEN IF \E k \in 1..n : ProfileRaises(candidates[k])
            THEN Error("AttributeError")
            ELSE [ranked_candidate_ids |->
                      [k \in 1..n |-> LET i == k - 1 IN Get(candidates[k], "id", i)],
                  match_scores |-> [k \in 1..n |-> 50],
                  match_reasons |-> [k \in 1..n |-> "Application order (FIFO)"],
                  baseline |-> TRUE,
                  method |-> "fifo"]
       ELSE [ranked_candidate_ids |-> [k \in 1..n |-> k - 1],
             match_scores |-> [k \in 1..n |-> 50],
             match_reasons |-> [k \in 1..n |-> "Application order (FIFO)"],
             baseline |-> TRUE,
             method |-> "fifo"]

\* list[:k] for k >= 0
Prefix(list, k) == SubSeq(list, 1, IF k < Len(list) THEN k ELSE Len(list))

candidate_segmenter(request) ==
    LET candidates == Get(request, "candidates", <<>>)
        num_clusters == Get(request, "num_clusters", 3)
        assignments == [k \in 1..Len(candidates) |->
                            LET i == k - 1 IN i % num_clusters]
        descriptions == Prefix(<<"General candidates - Group A",
                                 "General candidates - Group B",
                                 "General candidates - Group C">>, num_clusters)
    IN [cluster_assignments |-> assignments,
        cluster_descriptions |-> descriptions,
        cluster_centroids |-> <<>>,
        baseline |-> TRUE,
        method |-> "category_grouping"]

skill_keywords ==
    <<<<"p", "y", "t", "h", "o", "n">>,
      <<"j", "a", "v", "a", "s", "c", "r", "i", "p", "t">>,
      <<"j", "a", "v", "a">>,
      <<"s", "q", "l">>,
      <<"r", "e", "a", "c", "t">>,
      <<"n", "o", "d", "e", ".", "j", "s">>,
      <<"a", "w", "s">>,
      <<"d", "o", "c", "k", "e", "r">>,
      <<"k", "u", "b", "e", "r", "n", "e", "t", "e", "s">>,
      <<"m", "a", "c", "h", "i", "n", "e", " ", "l", "e", "a", "r", "n", "i", "n", "g">>,
      <<"d", "a", "t", "a", " ", "s", "c", "i", "e", "n", "c", "e">>,
      <<"t", "e", "n", "s", "o", "r", "f", "l", "o", "w">>,
      <<"p", "y", "t", "o", "r", "c", "h">>,
      <<"p", "a", "n", "d", "a", "s">>,
      <<"g", "i", "t">>,
      <<"a", "g", "i", "l", "e">>>>

Digits == <<"0", "1", "2", "3", "4", "5", "6", "7", "8", "9">>
IsDigit(c) == \E k \in 1..10 : Digits[k] = c
\* \s on the ASCII range the requests use
IsSpace(c) == c \in {" ", "\t", "\n"}

\* the literal lit occurs in str at position p
StartsWith(str, p, lit) ==
    /\ p + Len(lit) - 1 <= Len(str)
    /\ \A k \in 1..Len(lit) : str[p + k - 1] = lit[k]

\* skill in resume_text
Contains(str, lit) == \E p \in 1..(Len(str) + 1) : StartsWith(str, p, lit)

\* first position from p on that does not hold a digit (\d+, greedy)
RECURSIVE DigitsEnd(_, _)
DigitsEnd(str, p) ==
    IF p <= Len(str) /\ IsDigit(str[p]) THEN DigitsEnd(str, p + 1) ELSE p

\* first position from p on that does not hold white space (\s*, greedy)
RECURSIVE SpacesEnd(_, _)
SpacesEnd(str, p) ==
    IF p <= Len(str) /\ IsSpace(str[p]) THEN SpacesEnd(str, p + 1) ELSE p

\* (\d+)\+?\s*years? matched at position p. Each greedy choice is the only
\* one that can succeed: after fewer digits the next character is a digit,
\* after a skipped "+" it is "+", after fewer blanks it is a blank, and none
\* of them starts "year". group is the text of (\d+), end the position after
\* the match.
MatchAt(str, p) ==
    LET d == DigitsEnd(str, p)
        q == IF d <= Len(str) /\ str[d] = "+" THEN d + 1 ELSE d
        y == SpacesEnd(str, q)
        e == y + 4
    IN IF d > p /\ StartsWith(str, y, <<"y", "e", "a", "r">>)
       THEN [matched |-> TRUE, group |-> SubSeq(str, p, d - 1),
             end |-> IF e <= Len(str) /\ str[e] = "s" THEN e + 1 ELSE e]
       ELSE [matched |-> FALSE, group |-> <<>>, end |-> p]

\* re.findall: the groups of the leftmost non-overlapping matches from p on
RECURSIVE findall(_, _)
findall(str, p) ==
    IF p > Len(str) THEN <<>>
    ELSE LET m == MatchAt(str, p)
         IN IF m.matched THEN <<m.group>> \o findall(str, m.end)
            ELSE findall(str, p + 1)

\* int(y) of a string of decimal digits
RECURSIVE int(_)
int(y) ==
    IF y = <<>> THEN 0
    ELSE 10 * int(SubSeq(y, 1, Len(y) - 1))
            + ((CHOOSE k \in 1..10 : Digits[k] = y[Len(y)]) - 1)

\* max(int(y) for y in year_patterns)
max(numbers) ==
    CHOOSE n \in {numbers[k] : k \in 1..Len(numbers)} :
        \A k \in 1..Len(numbers) : numbers[k] <= n

\* faulty variant: the first occurrence, not the largest
experience_years_FirstMatch(resume_text) ==
    LET year_patterns == findall(resume_text, 1)
    IN IF year_patterns # <<>> THEN int(year_patterns[1]) ELSE 0

experience_years(resume_text) ==
    LET year_patterns == findall(resume_text, 1)
    IN IF year_patterns # <<>>
       THEN max([k \in 1..Len(year_patterns) |-> int(year_patterns[k])])
       ELSE 0

\* faulty variant: request["resume_text"], a KeyError when the field is absent
resume_parser_RequiresText(request) ==
    IF "resume_text" \notin DOMAIN request THEN Error("KeyError")
    ELSE LET resume_text == lower(request["resume_text"])
             found_skills == SelectSeq(skill_keywords,
                                       LAMBDA skill : Contains(resume_text, skill))
         IN [skills |-> found_skills,
             experience_years |-> experience_years(resume_text),
             education |-> <<>>,
             work_history |-> <<>>,
             summary |-> IF resume_text # <<>> THEN Prefix(resume_text, 200) ELSE <<>>,
             baseline |-> TRUE,
             method |-> "keyword_matching"]

resume_parser(request) ==
    LET resume_text == lower(Get(request, "resume_text", <<>>))
        found_skills == SelectSeq(skill_keywords,
                                  LAMBDA skill : Contains(resume_text, skill))
    IN [skills |-> found_skills,
        experience_years |-> experience_years(resume_text),
        education |-> <<>>,
        work_history |-> <<>>,
        summary |-> IF resume_text # <<>> THEN Prefix(resume_text, 200) ELSE <<>>,
        baseline |-> TRUE,
        method |-> "keyword_matching"]

\* f"{n}" for n >= 0
RECURSIVE format(_)
format(n) ==
    IF n < 10 THEN <<Digits[n + 1]>>
    ELSE format(n \div 10) \o <<Digits[(n % 10) + 1]>>

demand_forecaster(request) ==
    LET forecast_horizon == Get(request, "forecast_horizon", 3)
        current_demand == 100
        periods == [k \in 1..forecast_horizon |->
                        LET i == k - 1
                        IN <<"m", "o", "n", "t", "h", "_">> \o format(i + 1)]
        demands == [k \in 1..forecast_horizon |-> current_demand]
        bounds == [k \in 1..forecast_horizon |->
                       <<FloatOfProduct(current_demand, Double08),
                         FloatOfProduct(current_demand, Double12)>>]
    IN [forecast_periods |-> periods,
        predicted_demand |-> demands,
        confidence_bounds |-> bounds,
        baseline |-> TRUE,
        method |-> "flat_projection"]

\* FALLBACK_HANDLERS[handler](request)
CallHandler(handler, data) ==
    CASE handler = "job_recommender" -> job_recommender(data)
      [] handler = "salary_predictor" -> salary_predictor(data)
      [] handler = "candidate_ranker" -> candidate_ranker(data)
      [] handler = "resume_parser" -> resume_parser(data)
      [] handler = "demand_forecaster" -> demand_forecaster(data)
      [] handler = "candidate_segmenter" -> candidate_segmenter(data)

\* the requests: with and without the field the baseline reads
RecommenderRequests ==
    {[candidate_id |-> 1]}
    \cup {[candidate_id |-> 1, num_recommendations |-> n] : n \in 0..MaxCount}

upper(str) ==
    [i \in 1..Len(str) |->
        IF \E k \in 1..26 : Lowercase[k] = str[i]
        THEN Uppercase[CHOOSE k \in 1..26 : Lowercase[k] = str[i]]
        ELSE str[i]]

\* the first letter of every word in upper case
Capitalized(str) ==
    [i \in 1..Len(str) |->
        IF i = 1 \/ str[IF i = 1 THEN 1 ELSE i - 1] = " "
        THEN upper(<<str[i]>>)[1]
        ELSE str[i]]

TableTitles == {row[1] : row \in title_averages}

\* "unknown job", "engineer" and the empty string
OtherTitles ==
    {<<"u", "n", "k", "n", "o", "w", "n", " ", "j", "o", "b">>,
     <<"e", "n", "g", "i", "n", "e", "e", "r">>,
     <<>>}

Titles ==
    TableTitles \cup {upper(t) : t \in TableTitles}
        \cup {Capitalized(t) : t \in TableTitles} \cup OtherTitles

SalaryRequests ==
    {[location |-> "remote"]}
    \cup {[location |-> "remote", job_title |-> t] : t \in Titles}

\* objects with an id, an object without one, and a bare value
Profiles ==
    {[dict |-> TRUE, id |-> 10], [dict |-> TRUE, id |-> 20],
     [dict |-> TRUE], [dict |-> FALSE]}

ProfileLists == UNION {[1..n -> Profiles] : n \in 0..MaxProfiles}

RankerRequests ==
    {[job_id |-> 1]}
    \cup {[job_id |-> 1, candidate_profiles |-> l] : l \in ProfileLists}

\* candidate lists of every length, num_clusters absent or from 1 up
CandidateLists == {[k \in 1..n |-> k] : n \in 0..MaxCandidates}

SegmenterRequests ==
    {[candidates |-> l] : l \in CandidateLists}
    \cup {[candidates |-> l, num_clusters |-> k] :
             l \in CandidateLists, k \in 1..MaxClusters}

\* pieces of resume text: numbers, a blank, "+", the word in two cases and
\* forms, a skill and a filler
Tokens ==
    {<<"5">>,
     <<"1", "2">>,
     <<" ">>,
     <<"+">>,
     <<"y", "e", "a", "r">>,
     <<"Y", "E", "A", "R", "S">>,
     <<"P", "y", "t", "h", "o", "n">>,
     <<"x">>}

RECURSIVE Texts(_)
Texts(n) ==
    IF n = 0 THEN {<<>>}
    ELSE LET shorter == Texts(n - 1)
         IN shorter \cup {t \o w : t \in shorter, w \in Tokens}

ResumeRequests ==
    {[resume_format |-> "text"]}
    \cup {[resume_format |-> "text", resume_text |-> t] : t \in Texts(MaxTokens)}

ForecasterRequests ==
    {[skill_category |-> "data"]}
    \cup {[skill_category |-> "data", forecast_horizon |-> h] : h \in 0..MaxHorizon}

\* the payload {}
EmptyRequest == <<>>

BaselineInit ==
    /\ source = NoSource
    /\ ConfigInit
    /\ metrics = <<>>
    /\ calls = EmptyBag
    /\ recorded = [n \in Names |-> <<>>]
    /\ health = NoHealth
    /\ admin = NoReply
    /\ \/ \E data \in RecommenderRequests :
             handler_request = [handler |-> "job_recommender", data |-> data]
       \/ \E data \in SalaryRequests :
             handler_request = [handler |-> "salary_predictor", data |-> data]
       \/ \E data \in RankerRequests :
             handler_request = [handler |-> "candidate_ranker", data |-> data]
       \/ \E data \in ResumeRequests :
             handler_request = [handler |-> "resume_parser", data |-> data]
       \/ \E data \in SegmenterRequests :
             handler_request = [handler |-> "candidate_segmenter", data |-> data]
       \/ \E data \in ForecasterRequests :
             handler_request = [handler |-> "demand_forecaster", data |-> data]
       \/ \E handler \in SixServices :
             handler_request = [handler |-> handler, data |-> EmptyRequest]
    /\ handler_response = None
    /\ db = SeededDb
    /\ workers = [w \in 1..MaxWorkers |-> IdleWorker]

CallBaseline ==
    /\ handler_response = None
    /\ handler_response' = CallHandler(handler_request.handler, handler_request.data)
    /\ UNCHANGED <<source, services, gateway, last_loaded, last_mtime,
                   metrics, calls, recorded, health, admin, handler_request,
                   db, workers>>

BaselineNext == CallBaseline

SpecBaseline == BaselineInit /\ [][BaselineNext]_vars

(***************************************************************************)
(* The webapp's create_application (routers/applications.py).  The         *)
(* endpoints are plain functions, which FastAPI runs on the threads of a   *)
(* pool, each request with a database session of its own; a query reads    *)
(* the committed tables at the moment it runs, and nothing is locked       *)
(* between one statement and the next.  A thread handles one request.      *)
(***************************************************************************)
GatewayUnchanged ==
    UNCHANGED <<source, services, gateway, last_loaded, last_mtime, metrics,
                calls, recorded, health, admin, handler_request, handler_response>>

\* the candidate and job ids requests name: known and unknown ones
CandidateIds == Candidates \cup {2}
JobIds == DOMAIN SeededDb.jobs \cup {3}

Application(candidate_id, job_id) ==
    [candidate_id |-> candidate_id, job_id |-> job_id, status |-> "submitted"]

\* raise HTTPException(status_code=...), or the 201 of the route
Respond(w, status_code) ==
    workers' = [workers EXCEPT ![w].pc = "done", ![w].status_code = status_code]

Goto(w, pc) == workers' = [workers EXCEPT ![w].pc = pc]

\* POST /applications/ reaches the handler
Accept(w, candidate_id, job_id) ==
    /\ workers[w].pc = "idle"
    /\ workers' = [workers EXCEPT ![w] = [pc |-> "candidate",
                                           candidate_id |-> candidate_id,
                                           job_id |-> job_id, status_code |-> 0]]
    /\ UNCHANGED db
    /\ GatewayUnchanged

\* Verify candidate exists
QueryCandidate(w) ==
    /\ workers[w].pc = "candidate"
    /\ IF workers[w].candidate_id \notin Candidates
       THEN Respond(w, 404)
       ELSE Goto(w, "job")
    /\ UNCHANGED db
    /\ GatewayUnchanged

\* Verify job exists and is open
QueryJob(w) ==
    /\ workers[w].pc = "job"
    /\ IF workers[w].job_id \notin DOMAIN db.jobs
       THEN Respond(w, 404)
       ELSE IF db.jobs[workers[w].job_id] # "open"
       THEN Respond(w, 400)
       ELSE Goto(w, "existing")
    /\ UNCHANGED db
    /\ GatewayUnchanged

\* Check for duplicate application
QueryExisting(w) ==
    /\ workers[w].pc = "existing"
    /\ IF \E k \in 1..Len(db.applications) :
             /\ db.applications[k].candidate_id = workers[w].candidate_id
             /\ db.applications[k].job_id = workers[w].job_id
       THEN Respond(w, 400)
       ELSE Goto(w, "commit")
    /\ UNCHANGED db
    /\ GatewayUnchanged

\* db.add(db_application); db.commit()
Commit(w) ==
    /\ workers[w].pc = "commit"
    /\ db' = [db EXCEPT !.applications =
                  Append(@, Application(workers[w].candidate_id, workers[w].job_id))]
    /\ Respond(w, 201)
    /\ GatewayUnchanged

\* close_job and delete_job: a job that exists gets the status closed
close_job(job_id) ==
    /\ job_id \in DOMAIN db.jobs
    /\ db' = [db EXCEPT !.jobs[job_id] = "closed"]
    /\ UNCHANGED workers
    /\ GatewayUnchanged

WebappInit ==
    /\ source = NoSource
    /\ ConfigInit
    /\ metrics = <<>>
    /\ calls = EmptyBag
    /\ recorded = [n \in Names |-> <<>>]
    /\ health = NoHealth
    /\ Idle

CreateApplication ==
    \E w \in 1..MaxWorkers :
        \/ \E candidate_id \in CandidateIds, job_id \in JobIds :
               Accept(w, candidate_id, job_id)
        \/ QueryCandidate(w)
        \/ QueryJob(w)
        \/ QueryExisting(w)
        \/ Commit(w)

CloseJob == \E job_id \in DOMAIN db.jobs : close_job(job_id)

WebappNext == CreateApplication \/ CloseJob

SpecWebapp == WebappInit /\ [][WebappNext]_vars

(***************************************************************************)
(* Vocabulary of the properties.                                           *)
(***************************************************************************)
Frames == BagToSet(calls)

DoneFrames == {c \in Frames : c.pc = "done"}

\* the number of route calls made so far to a service
CallsTo(service_name) ==
    LET fs == {c \in Frames : c.service = service_name}
    IN BagCardinality([c \in fs |-> calls[c]])

\* the metrics of a service, the counters of a fresh entry when it has none
MetricsOf(m, service_name) ==
    IF service_name \in DOMAIN m THEN m[service_name] ELSE NewMetrics

\* the external request of the call failed: transport error, non-2xx, timeout
ExternalFailed(c) == c.outcome \in FailedOutcomes

ReturnedFallback(c) ==
    /\ c.result.kind = "envelope"
    /\ c.result.source = "fallback"
    /\ c.result.body = c.service

\* the source cannot be loaded: absent, unreadable, not YAML or invalid
Unloadable(src) == ~src.exists \/ ~src.doc.parses

\* frame d ends in this step (a call that ran to its end in RouteStart, or the
\* resumption of a suspended one)
Ends(d) ==
    /\ d \in BagToSet(calls')
    /\ d.pc = "done"
    /\ CopiesIn(d, calls') = CopiesIn(d, calls) + 1

AllUnreachable(service_name) ==
    /\ CallsTo(service_name) > 0
    /\ \A c \in Frames :
          c.service = service_name =>
              /\ c.pc = "done"
              /\ ExternalFailed(c)
              /\ c.fallback_enabled = Read(TRUE)

CountsAre(service_name, n) ==
    /\ service_name \in DOMAIN metrics
    /\ metrics[service_name].total_requests = n
    /\ metrics[service_name].failures = n
    /\ metrics[service_name].fallback_success = n
    /\ metrics[service_name].external_success = 0

Usable(config) ==
    /\ config # None
    /\ config.enabled
    /\ config.endpoint # ""

C3_NoAttemptWithoutEndpoint ==
    \A c \in DoneFrames :
        ~Usable(c.config) =>
            /\ c.outcome = "none"
            /\ c.fallback_enabled = None
            /\ c.result.kind = "envelope" => c.result.source = "fallback"

(***************************************************************************)
(* C4.  A call whose external request failed while fallback_enabled is     *)
(* false records the failure (failures + 1, last_error set to the error),  *)
(* leaves fallback_success and the latency window as they were, and ends   *)
(* in the error of the external request.                                   *)
(***************************************************************************)
C4_PropagatesWhenFallbackDisabled ==
    [][\A d \in BagToSet(calls') :
          (Ends(d) /\ ExternalFailed(d) /\ ~gateway.fallback_enabled)
          => LET before == MetricsOf(metrics, d.service)
                 after == MetricsOf(metrics', d.service)
             IN /\ after.failures = before.failures + 1
                /\ after.last_error = [message |-> ExcOf(d.outcome)]
                /\ after.fallback_success = before.fallback_success
                /\ after.latencies = before.latencies
                /\ d.result = Error(ExcOf(d.outcome))]_vars

C4_Witness ==
    \E d \in DoneFrames :
        /\ ExternalFailed(d)
        /\ d.fallback_enabled = Read(FALSE)
        /\ d.result = Error(ExcOf(d.outcome))
        /\ metrics[d.service].fallback_success = 0
        /\ metrics[d.service].last_error = [message |-> ExcOf(d.outcome)]

(***************************************************************************)
(* C5.  Every envelope returned carries source in {external, fallback} and *)
(* latency_ms; endpoint is present exactly when source = external; and an  *)
(* external envelope is returned only by a call whose own external request *)
(* succeeded, with endpoint the URL that call requested.                   *)
(***************************************************************************)
C5_EnvelopeProvenance ==
    \A c \in DoneFrames :
        c.result.kind = "envelope" =>
            /\ c.result.source \in {"external", "fallback"}
            /\ "latency_ms" \in DOMAIN c.result
            /\ ("endpoint" \in DOMAIN c.result) <=> (c.result.source = "external")
            /\ c.result.source = "external" =>
                  /\ c.outcome = "ok"
                  /\ c.result.endpoint = c.config.endpoint

C5_Witness ==
    \E c, d \in DoneFrames :
        /\ c.result.kind = "envelope" /\ c.result.source = "external"
        /\ c.result.endpoint = c.config.endpoint
        /\ d.result.kind = "envelope" /\ d.result.source = "fallback"
        /\ "endpoint" \notin DOMAIN d.result

(***************************************************************************)
(* C6.  total_requests of a service is the number of route calls made to   *)
(* it, whether they are still in their external request or have ended,     *)
(* and however they ended; a service never called has no metrics entry,    *)
(* and while no call to a service has got past its external request the    *)
(* other counters are zero and the window is empty.                        *)
(***************************************************************************)
C6_EveryRequestCountedOnce ==
    \A s \in Names :
        IF CallsTo(s) = 0
        THEN s \notin DOMAIN metrics
        ELSE /\ s \in DOMAIN metrics
             /\ metrics[s].total_requests = CallsTo(s)
             /\ (\A c \in Frames : c.service = s => c.pc = "external")
                   => metrics[s] = [NewMetrics EXCEPT !.total_requests = CallsTo(s)]

\* two calls to one service, one ended in an error and one still suspended
C6_Witness ==
    \E c, d \in Frames :
        /\ c.service = d.service
        /\ c.pc = "done" /\ c.result.kind = "error"
        /\ d.pc = "external"
        /\ metrics[c.service].total_requests = 2

(***************************************************************************)
(* C7.  A call for a name that is neither configured nor in the baseline   *)
(* registry ends in a not-found error, which is not the error of a         *)
(* configured service without baseline handler.                            *)
(***************************************************************************)
C7_UnknownServiceNotFound ==
    \A c \in DoneFrames :
        (c.config = None /\ c.service \notin FALLBACK_HANDLERS)
        => /\ c.result.kind = "error"
           /\ c.result.exc # NoHandlerError

(***************************************************************************)
(* C8.  A call for a configured service without baseline handler that      *)
(* reaches the baseline attempt ends in an error, and the call records no  *)
(* external_success, no fallback_success and no latency sample.            *)
(***************************************************************************)
C8_MissingHandlerRecordsNothing ==
    [][\A d \in BagToSet(calls') :
          (Ends(d) /\ d.config # None /\ d.service \notin FALLBACK_HANDLERS
              /\ d.outcome # "ok"
              /\ (d.fallback_enabled = None \/ d.fallback_enabled = Read(TRUE)))
          => LET before == MetricsOf(metrics, d.service)
                 after == MetricsOf(metrics', d.service)
             IN /\ d.result.kind = "error"
                /\ after.external_success = before.external_success
                /\ after.fallback_success = before.fallback_success
                /\ after.latencies = before.latencies]_vars

(***************************************************************************)
(* C9.  The latency window of a service holds at most 100 samples: the     *)
(* last min(k, 100) of the k samples recorded for it, in recording order.  *)
(***************************************************************************)
C9_WindowKeepsMostRecent ==
    \A s \in DOMAIN metrics :
        LET window == metrics[s].latencies
            k == Len(recorded[s])
        IN /\ Len(window) <= 100
           /\ Len(window) = (IF k < 100 THEN k ELSE 100)
           /\ \A i \in 1..Len(window) : window[i] = recorded[s][k - Len(window) + i]

C9_Witness ==
    \E s \in DOMAIN metrics :
        /\ Len(recorded[s]) = 102
        /\ Len(metrics[s].latencies) = 100
        /\ metrics[s].latencies[1] = recorded[s][3]
        /\ metrics[s].latencies[100] = 102

(***************************************************************************)
(* C10.  get_health classifies a service with total requests and failures  *)
(* failures (0 <= failures <= total) as unknown when total = 0, degraded   *)
(* when failures/total > 1/2, warning when 1/10 < failures/total <= 1/2,   *)
(* healthy otherwise; failure_rate is failures/total, and 0 when total = 0.*)
(***************************************************************************)
C10_HealthClassification ==
    health # NoHealth =>
        \A s \in DOMAIN health :
            LET total == MetricsOf(metrics, s).total_requests
                failures == MetricsOf(metrics, s).failures
                rate == health[s].failure_rate
                expected ==
                    CASE total = 0 -> "unknown"
                      [] total > 0 /\ 2 * failures > total -> "degraded"
                      [] total > 0 /\ 10 * failures > total /\ 2 * failures <= total
                            -> "warning"
                      [] total > 0 /\ 10 * failures <= total -> "healthy"
            IN /\ health[s].status = expected
               /\ health[s].total_requests = total
               /\ total > 0 => (rate[2] > 0 /\ rate[1] * total = failures * rate[2])
               /\ total = 0 => rate = Zero

\* a report with a service at the boundary 1/10 and one never requested
C10_Witness ==
    /\ health # NoHealth
    /\ MetricsOf(metrics, HealthService).total_requests = 20
    /\ MetricsOf(metrics, HealthService).failures = 2
    /\ health[HealthService].status = "healthy"
    /\ health[HealthService].failure_rate = <<1, 10>>
    /\ health[ExtraService].status = "unknown"

(***************************************************************************)
(* C11.  As stated: get_health classifies a service whose failures are     *)
(* exactly half of its requests (1 of 2, 10 of 20) as degraded.            *)
(***************************************************************************)
AtHalf(s) ==
    /\ MetricsOf(metrics, s).total_requests > 0
    /\ 2 * MetricsOf(metrics, s).failures = MetricsOf(metrics, s).total_requests

C11_HalfIsDegraded ==
    health # NoHealth =>
        \A s \in DOMAIN health : AtHalf(s) => health[s].status = "degraded"

\* C11 as amended: such a service is classified warning; degraded needs a
\* failure rate strictly above 1/2.
C11_HalfIsWarning ==
    health # NoHealth =>
        \A s \in DOMAIN health :
            /\ AtHalf(s) => health[s].status = "warning"
            /\ health[s].status = "degraded" =>
                  2 * MetricsOf(metrics, s).failures > MetricsOf(metrics, s).total_requests

C11_Witness ==
    /\ health # NoHealth
    /\ MetricsOf(metrics, HealthService).total_requests = 2
    /\ MetricsOf(metrics, HealthService).failures = 1
    /\ health[HealthService].status = "warning"
    /\ health[HealthService].failure_rate = <<1, 2>>

(***************************************************************************)
(* C12.  Every answer of get_health has exactly the services of the        *)
(* current configuration as its entries, each entry being that of its      *)
(* service; a service never requested is reported unknown with no          *)
(* requests; a name that has metrics but is no longer configured does not  *)
(* make the call fail and gets no entry.                                   *)
(***************************************************************************)
C12_OneEntryPerConfiguredService ==
    [][GetHealth =>
          /\ DOMAIN health' = DOMAIN services
          /\ \A n \in DOMAIN services :
                /\ health'[n].endpoint = services[n].endpoint
                /\ health'[n].enabled = services[n].enabled
                /\ health'[n].total_requests = MetricsOf(metrics, n).total_requests
                /\ n \notin DOMAIN metrics =>
                      /\ health'[n].status = "unknown"
                      /\ health'[n].last_error = None]_vars

\* a report made while resume_parser has metrics and is not configured
C12_Witness ==
    /\ health # NoHealth
    /\ DOMAIN health = DOMAIN services
    /\ "resume_parser" \in DOMAIN metrics
    /\ "resume_parser" \notin DOMAIN services
    /\ "resume_parser" \notin DOMAIN health
    /\ \E n \in DOMAIN health :
          n \notin DOMAIN metrics /\ health[n].status = "unknown"

(***************************************************************************)
(* C13.  After check_reload, whatever it did, a second check_reload on the *)
(* unchanged source returns false and leaves the services map, the gateway *)
(* settings, last_loaded and the watermark as they are.                    *)
(***************************************************************************)
C13_SecondCheckReloadIsNoOp ==
    LET first == check_reload(CurrentConfig, source)
    IN /\ ~check_reload_returns(first, source)
       /\ check_reload(first, source) = first

Starts(d) ==
    /\ d \in BagToSet(calls')
    /\ BagCardinality(calls') = BagCardinality(calls) + 1
    /\ CopiesIn(d, calls') = CopiesIn(d, calls) + 1

C15_FailedReloadKeepsPriorConfig ==
    [][\A d \in BagToSet(calls') :
          (Starts(d) /\ check_reload_returns(CurrentConfig, source)
              /\ ~source.doc.parses)
          => /\ services' = services
             /\ gateway' = gateway
             /\ d.config = get_service(CurrentConfig, d.service)]_vars

(***************************************************************************)
(* C16.  With a missing or unloadable source, POST /admin/reload-config    *)
(* answers normally and the default configuration is in force afterwards,  *)
(* also when no load has ever succeeded.                                   *)
(***************************************************************************)
C16_ForceReloadNeverFails ==
    [][(ForceReload /\ Unloadable(source))
          => /\ admin'.kind = "reply"
             /\ services' = DefaultServices
             /\ gateway' = GatewaySettings(TRUE)]_vars

(***************************************************************************)
(* C17.  A route call issues at most one HTTP request, whatever            *)
(* max_retries is: one when it makes an external attempt, none otherwise,  *)
(* and a call whose request failed has ended with that one request.        *)
(***************************************************************************)
C17_AtMostOneExternalRequest ==
    \A c \in Frames :
        /\ c.attempts <= 1
        /\ c.attempts = 1 <=> c.outcome # "none"
        /\ (c.pc = "done" /\ ExternalFailed(c)) => c.attempts = 1

C17_Witness ==
    /\ gateway.max_retries >= 2
    /\ \E c \in DoneFrames :
          /\ ExternalFailed(c)
          /\ c.attempts = 1
          /\ c.fallback_enabled = Read(gateway.fallback_enabled)

(***************************************************************************)
(* C18.  After every step last_error of a service is absent exactly when   *)
(* its failures counter is 0.  A step either leaves both as they were (so  *)
(* a call that succeeds, externally or by the baseline, does not touch     *)
(* last_error), or counts one more failure and sets last_error to the      *)
(* message of the failure of the call that ends in this step.              *)
(***************************************************************************)
C18_LastErrorIsLatestFailure ==
    [][\A s \in Names :
          LET before == MetricsOf(metrics, s)
              after == MetricsOf(metrics', s)
          IN /\ after.last_error = None <=> after.failures = 0
             /\ \/ /\ after.failures = before.failures
                   /\ after.last_error = before.last_error
                \/ /\ after.failures = before.failures + 1
                   /\ \E d \in BagToSet(calls') :
                         /\ Ends(d)
                         /\ d.service = s
                         /\ d.outcome \notin {"ok", "none"}
                         /\ after.last_error = [message |-> ExcOf(d.outcome)]]_vars

\* a service with one failed call and one call answered by its endpoint
C18_Witness ==
    \E c, d \in DoneFrames :
        /\ c.service = d.service
        /\ ExternalFailed(c)
        /\ d.outcome = "ok"
        /\ metrics[c.service].failures = 1
        /\ metrics[c.service].external_success = 1
        /\ metrics[c.service].last_error = [message |-> ExcOf(c.outcome)]

(***************************************************************************)
(* C19.  The job_recommender baseline asked for N >= 0 recommendations     *)
(* (10 when num_recommendations is absent) returns job_ids 1, ..., N, the  *)
(* N scores 1/(i+1) for i = 0..N-1, strictly decreasing, and N equal       *)
(* explanation strings.                                                    *)
(***************************************************************************)
C19_RecommenderIdsAndScores ==
    (handler_response # None /\ handler_request.handler = "job_recommender") =>
        LET data == handler_request.data
            N == IF "num_recommendations" \in DOMAIN data
                 THEN data.num_recommendations
                 ELSE 10
            r == handler_response
        IN /\ Len(r.job_ids) = N
           /\ \A i \in 1..N : r.job_ids[i] = i
           /\ Len(r.scores) = N
           /\ \A i \in 0..(N - 1) : r.scores[i + 1] = <<1, i + 1>>
           /\ \A i, j \in 1..N :
                 i < j => r.scores[i][1] * r.scores[j][2] > r.scores[j][1] * r.scores[i][2]
           /\ Len(r.explanations) = N
           /\ \A i, j \in 1..N : r.explanations[i] = r.explanations[j]

C19_Witness ==
    /\ handler_request = [handler |-> "job_recommender",
                          data |-> [candidate_id |-> 1, num_recommendations |-> 5]]
    /\ handler_response # None
    /\ handler_response.job_ids = <<1, 2, 3, 4, 5>>
    /\ handler_response.scores = <<<<1, 1>>, <<1, 2>>, <<1, 3>>, <<1, 4>>, <<1, 5>>>>
    /\ Len(handler_response.explanations) = 5

(***************************************************************************)
(* C20.  The salary_predictor baseline returns as predicted_salary the     *)
(* table value of the lower-cased title, 100000 when the title is not in   *)
(* the table or absent, and as confidence_interval the pair                *)
(* floor(salary * 7 / 10), floor(salary * 13 / 10); software engineer in   *)
(* any letter case gives 130000 and [91000, 169000], a title not in the    *)
(* table 100000 and [70000, 130000].                                       *)
(***************************************************************************)
SoftwareEngineer ==
    <<"s", "o", "f", "t", "w", "a", "r", "e", " ", "e", "n", "g", "i", "n", "e", "e", "r">>

C20_SalaryTableAndInterval ==
    (handler_response # None /\ handler_request.handler = "salary_predictor") =>
        LET data == handler_request.data
            r == handler_response
            salary == r.predicted_salary
            rows == IF "job_title" \in DOMAIN data
                    THEN {row \in title_averages :
                             data.job_title \in {row[1], upper(row[1]), Capitalized(row[1])}}
                    ELSE {}
        IN /\ \A row \in rows : salary = row[2]
           /\ rows = {} => salary = 100000
           /\ r.confidence_interval = <<(salary * 7) \div 10, (salary * 13) \div 10>>
           /\ ("job_title" \in DOMAIN data
                 /\ data.job_title \in {SoftwareEngineer, upper(SoftwareEngineer),
                                        Capitalized(SoftwareEngineer)})
              => /\ salary = 130000
                 /\ r.confidence_interval = <<91000, 169000>>
           /\ rows = {} => r.confidence_interval = <<70000, 130000>>

\* C21: candidate_ranker returns, for every list of profiles, one id per
\* profile in input order: the profile's id when the profile is an object
\* with an id, else its positional index; every score is 50, every reason
\* is the same string, and the three lists have the length of the input.
C21_RankerIdPerProfile ==
    (handler_response # None /\ handler_request.handler = "candidate_ranker") =>
        LET profiles == Get(handler_request.data, "candidate_profiles", <<>>)
            n == Len(profiles)
        IN /\ handler_response # Error("AttributeError")
           /\ DOMAIN handler_response.ranked_candidate_ids = 1..n
           /\ DOMAIN handler_response.match_scores = 1..n
           /\ DOMAIN handler_response.match_reasons = 1..n
           /\ \A k \in 1..n :
                 /\ handler_response.ranked_candidate_ids[k] =
                        IF profiles[k].dict /\ "id" \in DOMAIN profiles[k]
                        THEN profiles[k].id ELSE k - 1
                 /\ handler_response.match_scores[k] = 50
                 /\ handler_response.match_reasons[k] =
                        handler_response.match_reasons[1]

\* C22: candidate_segmenter, for every num_clusters k >= 1 (3 when absent)
\* and every candidate list, assigns cluster i mod k to the i-th candidate
\* (so every assignment is in 0..k-1) and returns exactly k descriptions and
\* an empty centroid list.
C22_SegmenterRoundRobin ==
    (handler_response # None /\ handler_request.handler = "candidate_segmenter") =>
        LET candidates == Get(handler_request.data, "candidates", <<>>)
            k == Get(handler_request.data, "num_clusters", 3)
            r == handler_response
        IN /\ k >= 1
           /\ DOMAIN r.cluster_assignments = 1..Len(candidates)
           /\ \A j \in 1..Len(candidates) :
                 /\ r.cluster_assignments[j] = (j - 1) % k
                 /\ r.cluster_assignments[j] \in 0..(k - 1)
           /\ Len(r.cluster_descriptions) = k
           /\ r.cluster_centroids = <<>>

\* the places (i, j) of the lower-cased text where a number stands in front
\* of an optional "+", optional white space and the word "year"
YearOccurrences(text) ==
    {o \in (1..Len(text)) \X (1..Len(text)) :
        /\ o[1] <= o[2]
        /\ \A k \in o[1]..o[2] : IsDigit(text[k])
        /\ \E y \in (o[2] + 1)..Len(text) :
              /\ StartsWith(text, y, <<"y", "e", "a", "r">>)
              /\ \E q \in {o[2] + 1} \cup
                           {o[2] + 2 : x \in {z \in {o[2] + 1} : text[z] = "+"}} :
                    /\ q <= y
                    /\ \A k \in q..(y - 1) : IsSpace(text[k])}

\* C23: resume_parser returns as experience_years the largest N over all
\* "<N> year(s)" occurrences in the lower-cased text, and 0 when there is
\* none or the text is empty or absent; an empty text gives no skills.
C23_ExperienceIsLargestYears ==
    (handler_response # None /\ handler_request.handler = "resume_parser") =>
        LET text == lower(Get(handler_request.data, "resume_text", <<>>))
            found == {int(SubSeq(text, o[1], o[2])) : o \in YearOccurrences(text)}
            r == handler_response
        IN /\ found = {} => r.experience_years = 0
           /\ found # {} =>
                 /\ r.experience_years \in found
                 /\ \A n \in found : n <= r.experience_years
           /\ text = <<>> => r.skills = <<>> /\ r.experience_years = 0

\* a text in upper case with a smaller number first and a larger one after
C23_Witness ==
    /\ handler_response # None
    /\ handler_request.handler = "resume_parser"
    /\ Get(handler_request.data, "resume_text", <<>>) =
          <<"5", "Y", "E", "A", "R", "S", "1", "2", "y", "e", "a", "r">>
    /\ handler_response.experience_years = 12

MethodOf ==
    [job_recommender |-> "most_recent", salary_predictor |-> "industry_average",
     candidate_ranker |-> "fifo", resume_parser |-> "keyword_matching",
     demand_forecaster |-> "flat_projection",
     candidate_segmenter |-> "category_grouping"]

Raised(r) == "kind" \in DOMAIN r /\ r.kind = "error"

\* C24: each of the six baselines, given the empty payload {}, returns
\* without raising, and every baseline response carries baseline = true and
\* the method string of its baseline.
C24_EmptyPayloadAndTags ==
    handler_response # None =>
        /\ DOMAIN handler_request.data = {} => ~Raised(handler_response)
        /\ ~Raised(handler_response) =>
              /\ handler_response.baseline = TRUE
              /\ handler_response.method = MethodOf[handler_request.handler]

\* resume_parser has answered the payload {}
C24_Witness ==
    /\ handler_request # None
    /\ handler_request.handler = "resume_parser"
    /\ DOMAIN handler_request.data = {}
    /\ handler_response # None
    /\ handler_response.method = "keyword_matching"
    /\ handler_response.experience_years = 0

\* the configurations a load can install: the defaults, or a document that
\* parses
Loadable ==
    {[services |-> DefaultServices, gateway |-> GatewaySettings(TRUE)]}
    \cup {[services |-> doc.services, gateway |-> doc.gateway] :
             doc \in {x \in Docs : x.parses}}

\* C25: within one route call, the ServiceConfig used for the external
\* attempt and the fallback_enabled setting read after the attempt failed
\* belong to one loaded configuration, also when the configuration is
\* reloaded while the call is suspended.
C25_OneConfigurationPerCall ==
    \A d \in DoneFrames :
        ExternalFailed(d) =>
            \E cfg \in Loadable :
                /\ d.config = get_service(cfg, d.service)
                /\ d.fallback_enabled = Read(cfg.gateway.fallback_enabled)

\* the number of calls made to a service whose frame is in the set fs
Copies(fs) == BagCardinality([c \in fs |-> calls[c]])

\* What a serial execution of the calls made to a service, each with the
\* outcome it had, counts: one request per call, one external success per
\* call answered by the endpoint, one failure per call whose external
\* attempt raised, one fallback success per call answered by the baseline.
SerialTotals(service_name) ==
    LET mine == {c \in Frames : c.service = service_name}
    IN [total_requests |-> Copies(mine),
        external_success |->
            Copies({c \in mine : c.result.kind = "envelope"
                                    /\ c.result.source = "external"}),
        fallback_success |->
            Copies({c \in mine : c.result.kind = "envelope"
                                    /\ c.result.source = "fallback"}),
        failures |->
            Copies({c \in mine : c.outcome \in FailedOutcomes \cup {"ok_not_object"}})]

\* C26: for every interleaving of concurrent route calls on one service, no
\* metrics update is lost: once all the calls have completed, total_requests
\* is their number and external_success, fallback_success and failures are
\* the totals of a serial execution of the same calls with the same outcomes.
C26_NoLostMetricsUpdate ==
    (\A c \in Frames : c.pc = "done") =>
        \A n \in Names :
            LET m == MetricsOf(metrics, n)
                t == SerialTotals(n)
            IN /\ m.total_requests = t.total_requests
               /\ m.external_success = t.external_success
               /\ m.fallback_success = t.fallback_success
               /\ m.failures = t.failures

\* Two calls to one service have completed after overlapping: the first
\* looked its ServiceConfig up in the defaults and read the fallback setting
\* of the document that the second call's check_reload loaded, so it was
\* suspended while the second started; both external attempts failed.
C26_Witness ==
    /\ \A c \in Frames : c.pc = "done"
    /\ \E a, b \in Frames :
          /\ a.service = "job_recommender" /\ b.service = "job_recommender"
          /\ a.config = DefaultServices["job_recommender"]
          /\ a.fallback_enabled = Read(FALSE)
          /\ b.config = StudentServices["job_recommender"]
          /\ ExternalFailed(a) /\ ExternalFailed(b)
    /\ metrics["job_recommender"].total_requests = 2
    /\ metrics["job_recommender"].failures = 2

Counters == {"total_requests", "external_success", "fallback_success", "failures"}

CountersBounded ==
    \A n \in DOMAIN metrics :
        /\ metrics[n].external_success + metrics[n].fallback_success
              <= metrics[n].total_requests
        /\ metrics[n].failures <= metrics[n].total_requests

CountersNeverDecrease ==
    \A n \in DOMAIN metrics :
        /\ n \in DOMAIN metrics'
        /\ \A f \in Counters : metrics'[n][f] >= metrics[n][f]

\* a step that installs another configuration changes no metrics entry but
\* that of the service whose call started in the step
ReloadKeepsMetrics ==
    CurrentConfig' # CurrentConfig =>
        \A n \in DOMAIN metrics :
            /\ n \in DOMAIN metrics'
            /\ \/ metrics'[n] = metrics[n]
               \/ \E d \in BagToSet(calls') : Starts(d) /\ d.service = n

\* C28: in every reachable state, calls in flight included, every service
\* with a metrics entry has external_success + fallback_success <=
\* total_requests and failures <= total_requests; no counter ever
\* decreases, and a configuration reload leaves all metrics unchanged.
C28_CountersBoundedAndMonotone ==
    /\ []CountersBounded
    /\ [][CountersNeverDecrease /\ ReloadKeepsMetrics]_vars

\* a call is in flight, the configuration was reloaded since it started, and
\* its service has counted a failure and a fallback answer
C28_Witness ==
    \E c \in Frames :
        /\ c.pc = "external"
        /\ c.config # get_service(CurrentConfig, c.service)
        /\ c.service \in DOMAIN metrics
        /\ metrics[c.service].total_requests = 2
        /\ metrics[c.service].failures = 1
        /\ metrics[c.service].fallback_success = 1

\* C29: each route call appends exactly one latency sample when it returns
\* an envelope and none when it ends in an error: once all calls have
\* completed, the number of samples ever recorded for a service is
\* external_success + fallback_success, also when an endpoint answers 2xx
\* with a JSON body that is not an object.
C29_OneSamplePerEnvelope ==
    (\A c \in Frames : c.pc = "done") =>
        \A n \in Names :
            /\ Len(recorded[n]) = MetricsOf(metrics, n).external_success
                                     + MetricsOf(metrics, n).fallback_success
            /\ Len(recorded[n]) =
                  Copies({c \in Frames : c.service = n /\ c.result.kind = "envelope"})

\* a call that ended on a timeout recorded a failure and used nothing of the
\* endpoint's answer: the baseline's envelope when fallback is enabled, the
\* exception otherwise
TimeoutIsFailure(d) ==
    /\ metrics'[d.service].failures = metrics[d.service].failures + 1
    /\ metrics'[d.service].external_success = metrics[d.service].external_success
    /\ metrics'[d.service].last_error = [message |-> "TimeoutException"]
    /\ IF gateway.fallback_enabled
       THEN ReturnedFallback(d)
       ELSE d.result = Error("TimeoutException")

\* C27: every route call that starts an external attempt eventually leaves
\* it, by a success, a failure or the expiry of the service's timeout, and
\* so eventually completes with an envelope or an error; an expiry is
\* handled exactly as an external failure and no part of the external
\* response is used.
C27_EveryAttemptEnds ==
    /\ []<>(Suspended = {})
    /\ [][\A d \in BagToSet(calls') :
            (Ends(d) /\ d.outcome = "timeout") => TimeoutIsFailure(d)]_vars

NoDuplicateApplication ==
    \A i, j \in 1..Len(db.applications) :
        (/\ db.applications[i].candidate_id = db.applications[j].candidate_id
         /\ db.applications[i].job_id = db.applications[j].job_id) => i = j

\* an application is stored only for a job that is open when it is committed
CommitsOnlyForOpenJob ==
    Len(db'.applications) > Len(db.applications) =>
        LET row == db'.applications[Len(db'.applications)]
        IN /\ row.job_id \in DOMAIN db.jobs
           /\ db.jobs[row.job_id] = "open"

\* the step in which a request is rejected, and every step of a request
\* that ends rejected, stores nothing
RejectedStoresNothing ==
    \A w \in 1..MaxWorkers :
        (workers'[w].status_code \in {400, 404} /\ workers'[w] # workers[w])
            => db'.applications = db.applications

\* C30: after any sequence and interleaving of create_application requests
\* no two stored applications have the same (candidate_id, job_id); an
\* application is created only for a job whose status is open when the
\* application is committed; a rejected request stores nothing.
C30_UniqueApplicationsForOpenJobs ==
    /\ []NoDuplicateApplication
    /\ [][CommitsOnlyForOpenJob /\ RejectedStoresNothing]_vars

====
